---- MODULE Spec2Model ----
(***************************************************************************)
(* Model of the whimsi table macro: the compilation of an annotated struct *)
(* (or enum) into identifier, generator, DAO and table artifacts, and the  *)
(* behaviour of the emitted artifacts.                                     *)
(*                                                                         *)
(* Two generations of the generators live in the sources.  The crate as    *)
(* wired by lib.rs (mod constants; mod helper; mod msi_tables) compiles    *)
(* through msi_tables.rs, whose gen_tables_impl calls the generate_*       *)
(* functions of that same file.  dao.rs, identifier.rs and table.rs hold   *)
(* the split-out versions of those functions; where their text differs     *)
(* from msi_tables.rs they are modelled separately, with the file name as  *)
(* prefix (table_generate_table_definition is table.rs's                   *)
(* generate_table_definition).  Where the text is the same one operator    *)
(* models both.                                                            *)
(*                                                                         *)
(* Conventions: Option<T> is a sequence of length 0 (None) or 1 (Some);    *)
(* strings that the code inspects are sequences of one-character strings;  *)
(* a TokenStream is a record or a sequence of tokens.                      *)
(***************************************************************************)
EXTENDS Integers, Sequences, FiniteSets, TLC

VARIABLES input, called, ret, rows, heap, gens, last_from, earlier, out, origin

vars == <<input, called, ret, rows, heap, gens, last_from, earlier, out, origin>>

\* ------------------------------------------------------------------------
\* Bounds
\* ------------------------------------------------------------------------
MaxFields == 2

MaxVariants == 2

MaxDaoFields == 3

MaxUsed == 3

MaxGens == 2

MaxLists == 2

MaxColumnFields == 2

MaxCompilations == 3

MaxRepeatedFields == 1

MaxIdentifierFields == 2

MaxNameLen == 4

\* ------------------------------------------------------------------------
\* Option and sequence helpers
\* ------------------------------------------------------------------------
None == <<>>

Some(x) == <<x>>

is_some(o) == Len(o) = 1

is_none(o) == Len(o) = 0

unwrap(o) == o[1]

RECURSIVE Concat(_)
Concat(ss) == IF ss = <<>> THEN <<>> ELSE Head(ss) \o Concat(Tail(ss))

\* The sequences over S of length lo..hi.
SeqsOf(S, lo, hi) == UNION {[1..n -> S] : n \in lo..hi}

\* ------------------------------------------------------------------------
\* constants.rs (not among the sources; the values are those of the
\* expected outputs in the tests: DirectoryDao, DirectoryTable,
\* DirectoryIdentifier, DirectoryIdentifierGenerator)
\* ------------------------------------------------------------------------
DAO_SUFFIX == <<"D", "a", "o">>

TABLE_SUFFIX == <<"T", "a", "b", "l", "e">>

IDENTIFIER_SUFFIX == <<"I", "d", "e", "n", "t", "i", "f", "i", "e", "r">>

GENERATOR_SUFFIX == <<"G", "e", "n", "e", "r", "a", "t", "o", "r">>

\* ------------------------------------------------------------------------
\* helper.rs
\* ------------------------------------------------------------------------
LowerCase == <<"a", "b", "c", "d", "e", "f", "g", "h", "i", "j", "k", "l", "m",
               "n", "o", "p", "q", "r", "s", "t", "u", "v", "w", "x", "y", "z">>

UpperCase == <<"A", "B", "C", "D", "E", "F", "G", "H", "I", "J", "K", "L", "M",
               "N", "O", "P", "Q", "R", "S", "T", "U", "V", "W", "X", "Y", "Z">>

\* char::to_uppercase on the ASCII letters, digits and the underscore.
to_uppercase_char(c) ==
    IF \E k \in 1..Len(LowerCase) : LowerCase[k] = c
    THEN UpperCase[CHOOSE k \in 1..Len(LowerCase) : LowerCase[k] = c]
    ELSE c

\* str::to_uppercase
to_uppercase(s) == [k \in 1..Len(s) |-> to_uppercase_char(s[k])]

capitalize(s) ==
    IF s = <<>> THEN <<>> ELSE <<to_uppercase_char(Head(s))>> \o Tail(s)

\* Mutant: the regex without its look-arounds, matching every underscore.
RE_matches_every_underscore(s, k) == s[k] = "_"

\* The regex (?<!^)_(?!$): an underscore that is neither the first nor the
\* last character of the string.
RE_matches(s, k) == s[k] = "_" /\ k # 1 /\ k # Len(s)

\* Regex::split: the pieces of s between the matches, from position k on,
\* with cur the piece collected so far.
RECURSIVE RE_split(_, _, _)
RE_split(s, k, cur) ==
    IF k > Len(s) THEN <<cur>>
    ELSE IF RE_matches(s, k) THEN <<cur>> \o RE_split(s, k + 1, <<>>)
    ELSE RE_split(s, k + 1, Append(cur, s[k]))

snake_case_to_pascal_case(s) ==
    LET pieces == RE_split(s, 1, <<>>)
    IN  Concat([k \in 1..Len(pieces) |-> capitalize(pieces[k])])

dao_from_name(target_name) == target_name \o DAO_SUFFIX

table_from_name(target_name) == target_name \o TABLE_SUFFIX

identifier_from_name(target_name) == target_name \o IDENTIFIER_SUFFIX

identifier_generator_from_name(target_name) ==
    identifier_from_name(target_name) \o GENERATOR_SUFFIX

\* ------------------------------------------------------------------------
\* The derive input
\* ------------------------------------------------------------------------
\* syn::Expr given as category: a path (whose last segment is `last`) or
\* some other expression.
PathExpr(last) == [is_path |-> TRUE, last |-> last]

NotAPathExpr == [is_path |-> FALSE, last |-> "72"]

\* msi::Category::from_str succeeds on the names of the msi crate's
\* categories; "Bogus" stands for an identifier that is none of them.
RecognizedCategories == {"Integer", "DoubleInteger", "Identifier", "DefaultDir"}

CategoryExprs ==
    {PathExpr(c) : c \in {"Integer", "DoubleInteger", "Identifier", "Bogus"}}
        \cup {NotAPathExpr}

Lengths == {None, Some(72)}

ForeignNames == {<<"F", "e", "a">>}

\* IdentifierInformation (msi_tables.rs)
IdentifierInformation ==
    [generated : BOOLEAN, foreign_key : {None} \cup {Some(n) : n \in ForeignNames}]

\* The identifier(...) option of a field: absent, or present with generated
\* and foreign_key; a generated identifier names no foreign key.
IdentifierOptions ==
    {None} \cup {Some(i) : i \in {x \in IdentifierInformation :
                                    ~(x.generated /\ x.foreign_key # None)}}

\* syn::Type of a field: a path type with its segments (T, Option<T>,
\* std::option::Option<T>, Vec<Option<T>>) or another type (a tuple);
\* written is the type as declared.
TypePath(segments, written) ==
    [is_path |-> TRUE, segments |-> segments, written |-> written]

PlainType == TypePath(<<"T">>, "T")

Types ==
    {PlainType,
     TypePath(<<"Option">>, "Option<T>"),
     TypePath(<<"std", "option", "Option">>, "std::option::Option<T>"),
     TypePath(<<"Vec">>, "Vec<Option<T>>"),
     [is_path |-> FALSE, segments |-> <<>>, written |-> "(T, T)"]}

\* The field names of a struct, by position.
FieldIdents ==
    << <<"d", "i", "r">>, <<"f", "_">>, <<"d", "_", "d">>, <<"_", "x">>,
       <<"a", "_", "b", "_", "c">> >>

FieldIdent(i) == FieldIdents[((i - 1) % Len(FieldIdents)) + 1]

\* One annotated field of the input, as written: every option of
\* #[msitable(...)] may be present or absent.
RawField(ident, ty, category, length, column_name, primary_key, identifier_options, localizable) ==
    [ident |-> ident, ty |-> ty, category |-> category,
     length |-> length, column_name |-> column_name,
     primary_key |-> primary_key, identifier_options |-> identifier_options,
     localizable |-> localizable]

\* FieldInformation (msi_tables.rs): darling's FromField.  category and
\* length are plain syn::Expr members without #[darling(default)], so a
\* field that omits one of them does not parse; the other members default.
FieldInformation(raw) ==
    IF is_none(raw.length)
    THEN [ok |-> FALSE, value |-> raw]
    ELSE [ok |-> TRUE, value |-> [raw EXCEPT !.length = unwrap(raw.length)]]

\* NewTableDef (msi_tables.rs): darling's FromDeriveInput.  name is a
\* required String; the body is Data<(), FieldInformation>, so the fields
\* of a struct are parsed and the variants of an enum are not looked into.
NewTableDef(item) ==
    IF is_none(item.name) THEN [ok |-> FALSE]
    ELSE IF item.kind = "enum"
    THEN [ok |-> TRUE, name |-> unwrap(item.name), is_struct |-> FALSE,
          fields |-> <<>>]
    ELSE LET parsed == [k \in 1..Len(item.fields) |->
                            FieldInformation(item.fields[k])]
         IN  IF \E k \in 1..Len(parsed) : ~parsed[k].ok
             THEN [ok |-> FALSE]
             ELSE [ok |-> TRUE, name |-> unwrap(item.name), is_struct |-> TRUE,
                   fields |-> [k \in 1..Len(parsed) |-> parsed[k].value]]

\* ------------------------------------------------------------------------
\* Results of a generator function: the tokens, or the panic that ended it
\* ------------------------------------------------------------------------
NoTokens == <<>>

Ok(tokens) == [status |-> "ok", error |-> "none", tokens |-> tokens]

Panic(msg) == [status |-> "panic", error |-> msg, tokens |-> NoTokens]

Pending == [status |-> "pending", error |-> "none", tokens |-> NoTokens]

ERR_PARSE == "Failed to parse derive input"

ERR_NOT_STRUCT == "Generating an MSI table is only supported from a struct currently"

ERR_AMBIGUOUS == "More than one primary identifier found"

ERR_NOT_PATH == "Category is not a valid syn::Expr::Path."

ERR_CATEGORY == "Category is invalid"

ERR_LENGTH == "must define a length"

\* ------------------------------------------------------------------------
\* Identifier compiler (identifier.rs; msi_tables.rs lines 137-235)
\* ------------------------------------------------------------------------
\* The emitted wrapper struct <Name>Identifier (msi_tables.rs: no FromStr).
generate_identifier_definition(target_name, primary_identifier) ==
    [struct |-> identifier_from_name(target_name),
     doc_table |-> target_name \o TABLE_SUFFIX,
     to_identifier |-> TRUE, from_str |-> FALSE]

\* The emitted generator struct with its IdentifierGenerator and From
\* impls.  from_count is the expression the emitted From::from stores in
\* count: the literal 0 ("value.borrow().len()" is bound to a local that
\* is never used).
\* Mutant: a prefix that tells the first compilation from the later ones.
generator_definition_marking_later_compilations(target_name) ==
    [struct |-> identifier_generator_from_name(target_name),
     identifier_type |-> identifier_from_name(target_name),
     id_prefix |-> to_uppercase(target_name)
                    \o (IF called = "none" THEN <<>> ELSE <<"_">>),
     from_count |-> "0"]

\* Mutant: the prefix is the name as capitalized, not in upper case.
generator_definition_with_capitalized_prefix(target_name) ==
    [struct |-> identifier_generator_from_name(target_name),
     identifier_type |-> identifier_from_name(target_name),
     id_prefix |-> target_name,
     from_count |-> "0"]

generate_identifier_generator_definition(target_name) ==
    [struct |-> identifier_generator_from_name(target_name),
     identifier_type |-> identifier_from_name(target_name),
     id_prefix |-> to_uppercase(target_name),
     from_count |-> "0"]

\* Mutant: the generator emitted for every primary identifier.
identifier_tokens_with_generator_always(target_name, primary_identifier) ==
    [identifier |-> Some(generate_identifier_definition(target_name,
                                                        primary_identifier)),
     generator |-> Some(generate_identifier_generator_definition(target_name))]

generate_identifier_tokens(target_name, primary_identifier) ==
    [identifier |-> Some(generate_identifier_definition(target_name,
                                                        primary_identifier)),
     generator |->
        IF is_some(primary_identifier.identifier_options)
           /\ unwrap(primary_identifier.identifier_options).generated
        THEN Some(generate_identifier_generator_definition(target_name))
        ELSE None]

NoIdentifierTokens == [identifier |-> None, generator |-> None]

\* generate_identifier_definition of identifier.rs: the wrapper struct with
\* its ToIdentifier and FromStr impls; the field is not looked at.
identifier_generate_identifier_definition(target_name) ==
    [struct |-> identifier_from_name(target_name),
     doc_table |-> target_name \o TABLE_SUFFIX,
     to_identifier |-> TRUE, from_str |-> TRUE]

\* generate_identifier_tokens of identifier.rs.  There is no panic in it:
\* a field without identifier options takes the else branch.
identifier_generate_identifier_tokens(target_name, primary_identifier) ==
    Ok([identifier |-> Some(identifier_generate_identifier_definition(target_name)),
        generator |->
            IF is_some(primary_identifier.identifier_options)
               /\ unwrap(primary_identifier.identifier_options).generated
            THEN Some(generate_identifier_generator_definition(target_name))
            ELSE None])

\* ------------------------------------------------------------------------
\* Data-object compiler (dao.rs; msi_tables.rs lines 237-367)
\* ------------------------------------------------------------------------
generate_dao_struct_definition(dao_struct_ident, fields) ==
    [ident |-> dao_struct_ident,
     fields |-> [k \in 1..Len(fields) |->
                    [ident |-> fields[k].ident,
                     ty |-> fields[k].ty]]]

\* The body of the emitted primary_identifier() (msi_tables.rs).
generate_primary_identifier_impl_definition(primary_identifier, dao_struct_ident) ==
    IF is_some(primary_identifier)
    THEN [for |-> dao_struct_ident, returns |-> "Identifier",
          body |-> "to_identifier",
          field |-> Some(unwrap(primary_identifier).ident),
          via_self |-> FALSE, in_some |-> FALSE]
    ELSE [for |-> dao_struct_ident, returns |-> "Identifier",
          body |-> "None", field |-> None,
          via_self |-> FALSE, in_some |-> FALSE]

\* The emitted primary_identifier() of dao.rs: it returns
\* Option<Identifier>, and the body is Some( self.<field>.to_identifier() )
\* or None.
dao_generate_primary_identifier_impl_definition(primary_identifier, dao_struct_ident) ==
    IF is_some(primary_identifier)
    THEN [for |-> dao_struct_ident, returns |-> "Option<Identifier>",
          body |-> "to_identifier",
          field |-> Some(unwrap(primary_identifier).ident),
          via_self |-> TRUE, in_some |-> TRUE]
    ELSE [for |-> dao_struct_ident, returns |-> "Option<Identifier>",
          body |-> "None", field |-> None,
          via_self |-> FALSE, in_some |-> FALSE]

\* Tokens of the conflict expression.
EqToken(field_ident) == [tok |-> "==", field |-> field_ident]

AndAndToken == [tok |-> "&&", field |-> <<>>]

\* The loop of generate_msi_dao_conflicts_definition: conflict_expression
\* after the fields from position k on have been visited.
RECURSIVE conflict_expression_loop(_, _, _)
conflict_expression_loop(fields, k, conflict_expression) ==
    IF k > Len(fields) THEN conflict_expression
    ELSE IF ~fields[k].primary_key
    THEN conflict_expression_loop(fields, k + 1, conflict_expression)
    ELSE LET and_and == IF conflict_expression # <<>> THEN <<AndAndToken>>
                        ELSE <<>>
         IN  conflict_expression_loop(fields, k + 1,
                conflict_expression \o and_and \o <<EqToken(fields[k].ident)>>)

\* Mutant: the loop without its `continue`, comparing every field.
conflicts_definition_of_every_field(fields) ==
    conflict_expression_loop(
        [k \in 1..Len(fields) |-> [fields[k] EXCEPT !.primary_key = TRUE]],
        1, <<>>)

\* Mutant: a primary_key field that names a foreign key is not compared.
conflicts_definition_without_foreign_keys(fields) ==
    conflict_expression_loop(
        [k \in 1..Len(fields) |->
            [fields[k] EXCEPT !.primary_key =
                /\ fields[k].primary_key
                /\ ~(/\ is_some(fields[k].identifier_options)
                      /\ is_some(unwrap(fields[k].identifier_options).foreign_key))]],
        1, <<>>)

\* The body of the emitted conflicts_with(&self, other: &Self) -> bool.
generate_msi_dao_conflicts_definition(fields) ==
    conflict_expression_loop(fields, 1, <<>>)

\* Mutant: the loop leaves out the fields that are not primary_key.
to_row_definition_of_primary_keys(fields) ==
    LET keys == SelectSeq(fields, LAMBDA f : f.primary_key)
    IN  [k \in 1..Len(keys) |->
            [field |-> keys[k].ident, conv |-> "to_msi_value", via_self |-> FALSE]]

\* The elements of the vec! in the emitted to_row() (msi_tables.rs).
generate_msi_dao_to_row_definition(fields) ==
    [k \in 1..Len(fields) |->
        [field |-> fields[k].ident, conv |-> "to_msi_value", via_self |-> FALSE]]

\* The elements of the vec! in the emitted to_row() (dao.rs):
\* msi::ToValue::to_value(&self.<field>).
dao_generate_msi_dao_to_row_definition(fields) ==
    [k \in 1..Len(fields) |->
        [field |-> fields[k].ident, conv |-> "msi::ToValue::to_value",
         via_self |-> TRUE]]

generate_msi_dao_impl_definition(dao_struct_ident, fields) ==
    [for |-> dao_struct_ident,
     conflicts_with |-> generate_msi_dao_conflicts_definition(fields),
     to_row |-> generate_msi_dao_to_row_definition(fields)]

dao_generate_msi_dao_impl_definition(dao_struct_ident, fields) ==
    [for |-> dao_struct_ident,
     conflicts_with |-> generate_msi_dao_conflicts_definition(fields),
     to_row |-> dao_generate_msi_dao_to_row_definition(fields)]

\* The emitted <Name>Dao::new (dao.rs only): one parameter per field.
generate_new_for_dao(target_name, fields) ==
    [for |-> dao_from_name(target_name),
     parameters |-> [k \in 1..Len(fields) |-> fields[k].ident]]

generate_dao_tokens(target_name, primary_identifier, fields) ==
    LET dao_struct_ident == dao_from_name(target_name)
    IN  [struct |-> generate_dao_struct_definition(dao_struct_ident, fields),
         primary_identifier |->
            generate_primary_identifier_impl_definition(primary_identifier,
                                                        dao_struct_ident),
         msi_dao |-> generate_msi_dao_impl_definition(dao_struct_ident, fields)]

\* generate_dao_tokens of dao.rs.
dao_generate_dao_tokens(target_name, primary_identifier, fields) ==
    LET dao_struct_ident == dao_from_name(target_name)
    IN  [struct |-> generate_dao_struct_definition(dao_struct_ident, fields),
         new |-> generate_new_for_dao(target_name, fields),
         primary_identifier |->
            dao_generate_primary_identifier_impl_definition(primary_identifier,
                                                            dao_struct_ident),
         msi_dao |-> dao_generate_msi_dao_impl_definition(dao_struct_ident,
                                                          fields)]

\* ------------------------------------------------------------------------
\* Table schema compiler (table.rs; msi_tables.rs lines 369-517)
\* ------------------------------------------------------------------------
\* The finishing call of a column builder.
Int16 == [kind |-> "int16", length |-> None]

Int32 == [kind |-> "int32", length |-> None]

String(length) == [kind |-> "string", length |-> Some(length)]

\* Mutant: the two integer arms exchanged.
finish_build_with_widths_exchanged(field) ==
    IF ~field.category.is_path THEN Panic(ERR_NOT_PATH)
    ELSE IF field.category.last \notin RecognizedCategories
    THEN Panic(ERR_CATEGORY)
    ELSE IF field.category.last = "Integer" THEN Ok(Int32)
    ELSE IF field.category.last = "DoubleInteger" THEN Ok(Int16)
    ELSE Ok(String(field.length))

\* Mutant: a path that names no category takes the string arm.
finish_build_without_from_str(field) ==
    IF ~field.category.is_path THEN Panic(ERR_NOT_PATH)
    ELSE IF field.category.last = "Integer" THEN Ok(Int16)
    ELSE IF field.category.last = "DoubleInteger" THEN Ok(Int32)
    ELSE Ok(String(field.length))

\* generate_finish_build_for_field of msi_tables.rs: field.length is the
\* expression FieldInformation parsed.
generate_finish_build_for_field(field) ==
    IF ~field.category.is_path THEN Panic(ERR_NOT_PATH)
    ELSE LET category_str == field.category.last
         IN  IF category_str \notin RecognizedCategories
             THEN Panic(ERR_CATEGORY)
             ELSE IF category_str = "Integer" THEN Ok(Int16)
             ELSE IF category_str = "DoubleInteger" THEN Ok(Int32)
             ELSE Ok(String(field.length))

\* Mutant: a name that is no category falls through to the string arm.
table_finish_build_without_from_str(field) ==
    IF ~field.category.is_path THEN Panic(ERR_NOT_PATH)
    ELSE IF field.category.last = "Integer" THEN Ok(Int16)
    ELSE IF field.category.last = "DoubleInteger" THEN Ok(Int32)
    ELSE IF is_none(field.length) THEN Panic(ERR_LENGTH)
    ELSE Ok(String(unwrap(field.length)))

\* generate_finish_build_for_field of table.rs: field.length is an Option,
\* unwrapped only in the arm of the other categories.
table_generate_finish_build_for_field(field) ==
    IF ~field.category.is_path THEN Panic(ERR_NOT_PATH)
    ELSE LET category_str == field.category.last
         IN  IF category_str \notin RecognizedCategories
             THEN Panic(ERR_CATEGORY)
             ELSE IF category_str = "Integer" THEN Ok(Int16)
             ELSE IF category_str = "DoubleInteger" THEN Ok(Int32)
             ELSE IF is_none(field.length) THEN Panic(ERR_LENGTH)
             ELSE Ok(String(unwrap(field.length)))

\* Mutant: the positions counted from 1.
RECURSIVE primary_key_indices_from_one(_, _, _)
primary_key_indices_from_one(fields, k, acc) ==
    IF k > Len(fields) THEN acc
    ELSE primary_key_indices_from_one(fields, k + 1,
            IF fields[k].primary_key THEN Append(acc, k) ELSE acc)

\* The fold that builds primary_key_indices: the accumulator after the
\* fields from position k on have been visited.  enumerate() counts from 0.
RECURSIVE primary_key_indices_fold(_, _, _)
primary_key_indices_fold(fields, k, acc) ==
    IF k > Len(fields) THEN acc
    ELSE primary_key_indices_fold(fields, k + 1,
            IF fields[k].primary_key THEN Append(acc, k - 1) ELSE acc)

\* The fold that builds primary_keys (msi_tables.rs only).
RECURSIVE primary_keys_fold(_, _, _)
primary_keys_fold(fields, k, acc) ==
    IF k > Len(fields) THEN acc
    ELSE primary_keys_fold(fields, k + 1,
            IF fields[k].primary_key THEN Append(acc, fields[k].ident) ELSE acc)

\* Mutant: the column_name override is not looked at.
column_of_field_without_override(field, finish) ==
    [name |-> snake_case_to_pascal_case(field.ident),
     primary_key |-> field.primary_key,
     nullable |-> field.ty.is_path
                    /\ field.ty.segments[Len(field.ty.segments)] = "Option",
     localizable |-> field.localizable,
     foreign_key |->
        IF is_some(field.identifier_options)
           /\ is_some(unwrap(field.identifier_options).foreign_key)
        THEN Some(<<unwrap(unwrap(field.identifier_options).foreign_key), 0>>)
        ELSE None,
     category |-> field.category,
     finish |-> finish]

\* Mutant: a foreign key on a primary_key field is not linked.
column_of_field_linking_other_fields_only(field, finish) ==
    [name |-> IF is_some(field.column_name) THEN unwrap(field.column_name)
              ELSE snake_case_to_pascal_case(field.ident),
     primary_key |-> field.primary_key,
     nullable |-> field.ty.is_path
                    /\ field.ty.segments[Len(field.ty.segments)] = "Option",
     localizable |-> field.localizable,
     foreign_key |->
        IF is_some(field.identifier_options)
           /\ is_some(unwrap(field.identifier_options).foreign_key)
           /\ ~field.primary_key
        THEN Some(<<unwrap(unwrap(field.identifier_options).foreign_key), 0>>)
        ELSE None,
     category |-> field.category,
     finish |-> finish]

\* Mutant: the Option test on the first segment of the path.
column_of_field_testing_first_segment(field, finish) ==
    [name |-> IF is_some(field.column_name) THEN unwrap(field.column_name)
              ELSE snake_case_to_pascal_case(field.ident),
     primary_key |-> field.primary_key,
     nullable |-> field.ty.is_path /\ field.ty.segments[1] = "Option",
     localizable |-> field.localizable,
     foreign_key |->
        IF is_some(field.identifier_options)
           /\ is_some(unwrap(field.identifier_options).foreign_key)
        THEN Some(<<unwrap(unwrap(field.identifier_options).foreign_key), 0>>)
        ELSE None,
     category |-> field.category,
     finish |-> finish]

\* Mutant: a primary_key column is never marked localizable.
column_of_field_localizable_unless_key(field, finish) ==
    [name |-> IF is_some(field.column_name) THEN unwrap(field.column_name)
              ELSE snake_case_to_pascal_case(field.ident),
     primary_key |-> field.primary_key,
     nullable |-> field.ty.is_path
                    /\ field.ty.segments[Len(field.ty.segments)] = "Option",
     localizable |-> field.localizable /\ ~field.primary_key,
     foreign_key |->
        IF is_some(field.identifier_options)
           /\ is_some(unwrap(field.identifier_options).foreign_key)
        THEN Some(<<unwrap(unwrap(field.identifier_options).foreign_key), 0>>)
        ELSE None,
     category |-> field.category,
     finish |-> finish]

\* One step of the fold that builds columns: the msi::Column::build chain
\* of one field, given the result of its finishing call.
column_of_field(field, finish) ==
    [name |-> IF is_some(field.column_name) THEN unwrap(field.column_name)
              ELSE snake_case_to_pascal_case(field.ident),
     primary_key |-> field.primary_key,
     nullable |-> field.ty.is_path
                    /\ field.ty.segments[Len(field.ty.segments)] = "Option",
     localizable |-> field.localizable,
     foreign_key |->
        IF is_some(field.identifier_options)
           /\ is_some(unwrap(field.identifier_options).foreign_key)
        THEN Some(<<unwrap(unwrap(field.identifier_options).foreign_key), 0>>)
        ELSE None,
     category |-> field.category,
     finish |-> finish]

\* The fold that builds columns, with msi_tables.rs's finishing call: a
\* panic in a field ends the fold.
RECURSIVE columns_fold(_, _, _)
columns_fold(fields, k, acc) ==
    IF k > Len(fields) THEN Ok(acc)
    ELSE LET finish == generate_finish_build_for_field(fields[k])
         IN  IF finish.status = "panic" THEN finish
             ELSE columns_fold(fields, k + 1,
                    Append(acc, column_of_field(fields[k], finish.tokens)))

\* The same fold with table.rs's finishing call.
RECURSIVE table_columns_fold(_, _, _)
table_columns_fold(fields, k, acc) ==
    IF k > Len(fields) THEN Ok(acc)
    ELSE LET finish == table_generate_finish_build_for_field(fields[k])
         IN  IF finish.status = "panic" THEN finish
             ELSE table_columns_fold(fields, k + 1,
                    Append(acc, column_of_field(fields[k], finish.tokens)))

\* msi_tables.rs writes the impl for the literal type DirectoryTable.
DirectoryTable == <<"D", "i", "r", "e", "c", "t", "o", "r", "y">> \o TABLE_SUFFIX

\* generate_msi_table_impl of msi_tables.rs.
generate_msi_table_impl(fields) ==
    LET primary_key_indices == primary_key_indices_fold(fields, 1, <<>>)
        primary_keys == primary_keys_fold(fields, 1, <<>>)
        columns == columns_fold(fields, 1, <<>>)
    IN  IF columns.status = "panic" THEN columns
        ELSE Ok([for |-> DirectoryTable,
                 name |-> None,
                 primary_key_indices |-> primary_key_indices,
                 primary_keys |-> primary_keys,
                 columns |-> columns.tokens])

\* generate_msi_table_impl of table.rs.
table_generate_msi_table_impl(target_name, fields) ==
    LET primary_key_indices == primary_key_indices_fold(fields, 1, <<>>)
        columns == table_columns_fold(fields, 1, <<>>)
    IN  IF columns.status = "panic" THEN columns
        ELSE Ok([for |-> table_from_name(target_name),
                 name |-> Some(target_name),
                 primary_key_indices |-> primary_key_indices,
                 primary_keys |-> <<>>,
                 columns |-> columns.tokens])

\* generate_table_definition of msi_tables.rs: the struct has a generator
\* member when any field's identifier options ask for a generated value.
generate_table_definition(target_name, fields) ==
    [ident |-> table_from_name(target_name),
     generator |->
        IF \E k \in 1..Len(fields) :
              /\ is_some(fields[k].identifier_options)
              /\ unwrap(fields[k].identifier_options).generated
        THEN Some(identifier_generator_from_name(target_name))
        ELSE None,
     entries |-> dao_from_name(target_name)]

\* generate_table_definition of table.rs: entries only.
table_generate_table_definition(target_name) ==
    [ident |-> table_from_name(target_name),
     generator |-> None,
     entries |-> dao_from_name(target_name)]

generate_table_tokens(target_name, fields) ==
    LET table_definition_tokens == generate_table_definition(target_name, fields)
        msi_table_impl_tokens == generate_msi_table_impl(fields)
    IN  IF msi_table_impl_tokens.status = "panic" THEN msi_table_impl_tokens
        ELSE Ok([definition |-> table_definition_tokens,
                 msi_table |-> msi_table_impl_tokens.tokens])

table_generate_table_tokens(target_name, fields) ==
    LET table_definition_tokens == table_generate_table_definition(target_name)
        msi_table_impl_tokens == table_generate_msi_table_impl(target_name, fields)
    IN  IF msi_table_impl_tokens.status = "panic" THEN msi_table_impl_tokens
        ELSE Ok([definition |-> table_definition_tokens,
                 msi_table |-> msi_table_impl_tokens.tokens])

\* ------------------------------------------------------------------------
\* Orchestrator (msi_tables.rs lines 76-135)
\* ------------------------------------------------------------------------
\* Mutant: the filter without its foreign_key test.
primary_identifier_candidates_with_foreign_keys(fields) ==
    SelectSeq(fields, LAMBDA f :
        f.primary_key /\ is_some(f.identifier_options))

\* The filter of gen_tables_impl: the fields that qualify as primary
\* identifier, in declaration order.
primary_identifier_candidates(fields) ==
    SelectSeq(fields, LAMBDA f :
        /\ f.primary_key
        /\ is_some(f.identifier_options)
        /\ is_none(unwrap(f.identifier_options).foreign_key))

\* Mutant: an enum gets its tagged union before any variant is looked at.
gen_tables_impl_assembling_the_union_first(item) ==
    LET new_table == NewTableDef(item)
    IN  IF ~new_table.ok THEN Panic(ERR_PARSE)
        ELSE IF ~new_table.is_struct
        THEN Ok([union |-> Some([k \in 1..Len(item.variants) |->
                                    [case |-> item.variants[k].name,
                                     wraps |-> table_from_name(
                                        capitalize(item.variants[k].name))]]),
                 identifier |-> NoIdentifierTokens,
                 dao |-> NoTokens,
                 table |-> NoTokens])
        ELSE
        LET target_name == capitalize(new_table.name)
            fields == new_table.fields
            candidates == primary_identifier_candidates(fields)
        IN  IF Len(candidates) > 1 THEN Panic(ERR_AMBIGUOUS)
            ELSE
            LET primary_identifier ==
                    IF Len(candidates) = 1 THEN Some(candidates[1]) ELSE None
                identifier_tokens ==
                    IF is_some(primary_identifier)
                    THEN generate_identifier_tokens(target_name,
                                                    unwrap(primary_identifier))
                    ELSE NoIdentifierTokens
                dao_tokens ==
                    generate_dao_tokens(target_name, primary_identifier, fields)
                table_tokens == generate_table_tokens(target_name, fields)
            IN  IF table_tokens.status = "panic" THEN table_tokens
                ELSE Ok([union |-> None,
                         identifier |-> identifier_tokens,
                         dao |-> dao_tokens,
                         table |-> table_tokens.tokens])

gen_tables_impl_of(item) ==
    LET new_table == NewTableDef(item)
    IN  IF ~new_table.ok THEN Panic(ERR_PARSE)
        ELSE IF ~new_table.is_struct THEN Panic(ERR_NOT_STRUCT)
        ELSE
        LET target_name == capitalize(new_table.name)
            fields == new_table.fields
            candidates == primary_identifier_candidates(fields)
        IN  IF Len(candidates) > 1 THEN Panic(ERR_AMBIGUOUS)
            ELSE
            LET primary_identifier ==
                    IF Len(candidates) = 1 THEN Some(candidates[1]) ELSE None
                identifier_tokens ==
                    IF is_some(primary_identifier)
                    THEN generate_identifier_tokens(target_name,
                                                    unwrap(primary_identifier))
                    ELSE NoIdentifierTokens
                dao_tokens ==
                    generate_dao_tokens(target_name, primary_identifier, fields)
                table_tokens == generate_table_tokens(target_name, fields)
            IN  IF table_tokens.status = "panic" THEN table_tokens
                ELSE Ok([union |-> None,
                         identifier |-> identifier_tokens,
                         dao |-> dao_tokens,
                         table |-> table_tokens.tokens])

\* ------------------------------------------------------------------------
\* The emitted code at run time
\* ------------------------------------------------------------------------
\* The value of field_ident in a row of the DAO struct dao (a row is the
\* sequence of its field values, in declaration order).
field_value(dao, row, field_ident) ==
    row[CHOOSE k \in 1..Len(dao.fields) : dao.fields[k].ident = field_ident]

\* The value of a non-empty conflict expression: a chain of == terms joined
\* by &&.
RECURSIVE eval_conflict_expression(_, _, _, _)
eval_conflict_expression(dao, tokens, self, other) ==
    IF tokens = <<>> THEN TRUE
    ELSE IF Head(tokens).tok = "&&"
    THEN eval_conflict_expression(dao, Tail(tokens), self, other)
    ELSE /\ field_value(dao, self, Head(tokens).field)
              = field_value(dao, other, Head(tokens).field)
         /\ eval_conflict_expression(dao, Tail(tokens), self, other)

\* The emitted fn conflicts_with(&self, other: &Self) -> bool { <tokens> }.
\* With no tokens the body is the empty block, whose value is () and not a
\* bool: the function is rejected by the type checker (E0308) and the crate
\* that invoked the macro does not build.
conflicts_with(dao_tokens, self, other) ==
    IF dao_tokens.msi_dao.conflicts_with = <<>> THEN "mismatched types"
    ELSE IF eval_conflict_expression(dao_tokens.struct,
                dao_tokens.msi_dao.conflicts_with, self, other)
    THEN "true" ELSE "false"

\* The value a conversion method of the field's type gives for value v.
Applied(conv, v) == [conv |-> conv, of |-> v]

Built(value) == [build |-> "ok", value |-> value]

NotBuilt(error) == [build |-> error, value |-> <<>>]

\* The emitted fn primary_identifier(&self) on the row self.  A body that
\* names the field without self does not resolve (E0425), and a body whose
\* type is not the declared return type is rejected (E0308): in both cases
\* the crate that invoked the macro does not build.
primary_identifier(dao_tokens, self) ==
    LET impl == dao_tokens.primary_identifier
    IN  IF impl.body = "None"
        THEN IF impl.returns = "Option<Identifier>" THEN Built(None)
             ELSE NotBuilt("mismatched types")
        ELSE IF ~impl.via_self THEN NotBuilt("cannot find value")
        ELSE LET identifier ==
                    Applied("to_identifier",
                            field_value(dao_tokens.struct, self,
                                        unwrap(impl.field)))
             IN  IF impl.in_some /\ impl.returns = "Option<Identifier>"
                 THEN Built(Some(identifier))
                 ELSE IF ~impl.in_some /\ impl.returns = "Identifier"
                 THEN Built(identifier)
                 ELSE NotBuilt("mismatched types")

\* The emitted fn to_row(&self) -> Vec<msi::Value> on the row self: the
\* vec! of the conversions of the fields.  An element that names its field
\* without self does not resolve (E0425).
to_row(dao_tokens, self) ==
    LET elements == dao_tokens.msi_dao.to_row
    IN  IF \E k \in 1..Len(elements) : ~elements[k].via_self
        THEN NotBuilt("cannot find value")
        ELSE Built([k \in 1..Len(elements) |->
                        Applied(elements[k].conv,
                                field_value(dao_tokens.struct, self,
                                            elements[k].field))])

\* Mutant: the generator keeps the list created last, not the one behind
\* the handle it is given.
generator_from_keeping_the_newest_list(generator_tokens, lists, value) ==
    [used |-> Len(lists),
     count |-> IF generator_tokens.from_count = "0" THEN 0
               ELSE Len(lists[value])]

\* The emitted From<Rc<RefCell<Vec<Identifier>>>>::from of the generator:
\* the generator built from the handle value, the heap holding the lists.
generator_from(generator_tokens, lists, value) ==
    [used |-> value,
     count |-> IF generator_tokens.from_count = "0" THEN 0
               ELSE Len(lists[value])]

\* The emitted used(&self) of the generator: the list behind the handle the
\* generator holds, as a borrow of it reads it.
used(generator, lists) == lists[generator.used]

\* ------------------------------------------------------------------------
\* States
\* ------------------------------------------------------------------------
EntityNames == {<<"d", "i", "r">>}

\* What a field may declare: every combination of the options that decide
\* validation and the shape of the table.
FieldKinds ==
    [category : CategoryExprs, length : Lengths, primary_key : BOOLEAN,
     identifier_options : IdentifierOptions]

\* The field at position k of a struct, declaring kind.
FieldAt(k, kind) ==
    RawField(FieldIdent(k), PlainType, kind.category, kind.length, None,
             kind.primary_key, kind.identifier_options, FALSE)

StructItem(name, fields) == [kind |-> "struct", name |-> name, fields |-> fields,
                             variants |-> <<>>]

EnumItem(name, variants) == [kind |-> "enum", name |-> name, fields |-> <<>>,
                             variants |-> variants]

\* The structs named in EntityNames with n fields of the kinds in Kinds are
\* the values of StructOf(name, kinds) for kinds in [1..n -> Kinds].
StructOf(name, kinds) ==
    StructItem(Some(name), [k \in 1..Len(kinds) |-> FieldAt(k, kinds[k])])

\* The variants of the enum of test_msi_tables_enum, in any number and order.
DirectoryVariant ==
    [name |-> <<"D", "i", "r">>,
     fields |-> <<RawField(FieldIdent(1), PlainType, PathExpr("Identifier"), Some(72),
                           None, TRUE,
                           Some([generated |-> TRUE, foreign_key |-> None]),
                           FALSE)>>]

FeatureComponentVariant ==
    [name |-> <<"F", "e", "a", "C">>,
     fields |-> <<RawField(FieldIdent(2), PlainType, PathExpr("Identifier"), Some(72),
                           None, TRUE,
                           Some([generated |-> FALSE,
                                 foreign_key |-> Some(<<"F", "e", "a">>)]),
                           FALSE)>>]

\* Variants that fail validation: two primary identifiers, a category that
\* names none, and a string category without length.
AmbiguousVariant ==
    [name |-> <<"A", "m", "b">>,
     fields |-> [k \in 1..2 |->
                    RawField(FieldIdent(k), PlainType, PathExpr("Identifier"),
                             Some(72), None, TRUE,
                             Some([generated |-> FALSE, foreign_key |-> None]),
                             FALSE)]]

BogusVariant ==
    [name |-> <<"B", "o", "g">>,
     fields |-> <<RawField(FieldIdent(1), PlainType, PathExpr("Bogus"), Some(72),
                           None, FALSE, None, FALSE)>>]

NoLengthVariant ==
    [name |-> <<"N", "o", "L">>,
     fields |-> <<RawField(FieldIdent(1), PlainType, PathExpr("Identifier"), None,
                           None, FALSE, None, FALSE)>>]

Variants ==
    {DirectoryVariant, FeatureComponentVariant, AmbiguousVariant, BogusVariant,
     NoLengthVariant}

EnumItems ==
    {EnumItem(n, vs) :
        n \in {None, Some(<<"M", "s", "i">>)},
        vs \in SeqsOf(Variants, 1, MaxVariants)}

NoInput == [kind |-> "none", name |-> None, fields |-> <<>>, variants |-> <<>>]

NoRows == [self |-> <<>>, other |-> <<>>, result |-> "none"]

NoFrom == [handle |-> 0, len |-> 0, count |-> 0]

NoOut == [method |-> "none", self |-> <<>>, build |-> "none", value |-> <<>>]

\* Nothing has been compiled and nothing of the emitted code has run.
Init ==
    /\ input = NoInput
    /\ called = "none"
    /\ ret = Pending
    /\ rows = NoRows
    /\ heap = <<>>
    /\ gens = <<>>
    /\ last_from = NoFrom
    /\ earlier = <<>>
    /\ out = NoOut
    /\ origin = <<>>

\* The compilations that came before the latest one, oldest first: a
\* finished compilation joins them when the next one starts.
Earlier ==
    IF called = "none" THEN earlier
    ELSE Append(earlier, [input |-> input, called |-> called, ret |-> ret])

\* gen_tables_impl on item.
gen_tables_impl(item) ==
    /\ input' = item
    /\ called' = "gen_tables_impl"
    /\ ret' = gen_tables_impl_of(item)
    /\ earlier' = Earlier
    /\ UNCHANGED <<rows, heap, gens, last_from, out, origin>>

\* msi_table!(struct ...) (lib.rs), which hands its input to gen_tables_impl:
\* on a struct of at most max fields of the kinds in Kinds.
msi_table_of(Kinds, max) ==
    /\ called = "none"
    /\ \E n \in 0..max : \E name \in EntityNames : \E kinds \in [1..n -> Kinds] :
            gen_tables_impl(StructOf(name, kinds))

msi_table == msi_table_of(FieldKinds, MaxFields)

\* msi_table_list!(enum ...) (lib.rs), which hands its input to
\* gen_tables_impl.
msi_table_list ==
    /\ called = "none"
    /\ \E item \in EnumItems : gen_tables_impl(item)

\* table.rs's pub fn generate_table_tokens, called with the name and the
\* fields of a struct.
table_generate_table_tokens_on(item) ==
    /\ input' = item
    /\ ret' = table_generate_table_tokens(capitalize(unwrap(item.name)),
                                          item.fields)
    /\ called' = "table::generate_table_tokens"
    /\ earlier' = Earlier
    /\ UNCHANGED <<rows, heap, gens, last_from, out, origin>>

call_table_generate_table_tokens ==
    /\ called = "none"
    /\ \E n \in 0..MaxFields : \E name \in EntityNames :
       \E kinds \in [1..n -> FieldKinds] :
            table_generate_table_tokens_on(StructOf(name, kinds))

Next == msi_table \/ msi_table_list \/ call_table_generate_table_tokens

Spec == Init /\ [][Next]_vars

\* ------------------------------------------------------------------------
\* Compilations one after the other
\* ------------------------------------------------------------------------
\* A field that is a generated primary identifier and a field whose
\* category names none.
RepeatedKinds ==
    {[category |-> PathExpr("Identifier"), length |-> Some(72),
      primary_key |-> TRUE,
      identifier_options |-> Some([generated |-> TRUE, foreign_key |-> None])],
     [category |-> PathExpr("Bogus"), length |-> Some(72),
      primary_key |-> FALSE, identifier_options |-> None]}

\* The macro is invoked again, in the same process, after the compilations
\* made so far.
msi_table_repeated ==
    /\ Len(Earlier) < MaxCompilations
    /\ \E n \in 0..MaxRepeatedFields : \E name \in EntityNames :
       \E kinds \in [1..n -> RepeatedKinds] :
            gen_tables_impl(StructOf(name, kinds))

\* table.rs's generate_table_tokens is called again.
call_table_generate_table_tokens_repeated ==
    /\ Len(Earlier) < MaxCompilations
    /\ \E n \in 0..MaxRepeatedFields : \E name \in EntityNames :
       \E kinds \in [1..n -> RepeatedKinds] :
            table_generate_table_tokens_on(StructOf(name, kinds))

NextRepeated == msi_table_repeated \/ call_table_generate_table_tokens_repeated

SpecRepeated == Init /\ [][NextRepeated]_vars

\* ------------------------------------------------------------------------
\* Names, types and links of the columns
\* ------------------------------------------------------------------------
TableNames == {<<"d", "i", "r">>, <<"D", "i", "r">>, <<"d", "I", "_", "r">>}

ColumnNames == {None, Some(<<"X", "_", "y">>)}

\* The tables a foreign_key may name: the table itself, in either
\* spelling, and a table that is declared nowhere.
LinkNames == {<<"D", "i", "r">>, <<"N", "o">>}

\* A field that declares a valid category and length, and the given
\* name, type, column_name and flags; ident None leaves the name to the
\* position of the field.
ColumnKind(ident, ty, column_name, primary_key, identifier_options, localizable) ==
    [ident |-> ident, ty |-> ty, column_name |-> column_name,
     primary_key |-> primary_key, identifier_options |-> identifier_options,
     localizable |-> localizable]

\* Fields that differ in name and column_name, fields that differ in type,
\* and fields that differ in the key, identifier and localizable options.
ColumnKinds ==
    {ColumnKind(Some(FieldIdents[i]), PlainType, c, FALSE, None, FALSE) :
        i \in 1..Len(FieldIdents), c \in ColumnNames}
    \cup {ColumnKind(None, t, None, FALSE, None, FALSE) : t \in Types}
    \cup {ColumnKind(None, PlainType, None, p, o, l) :
            p \in BOOLEAN, l \in BOOLEAN,
            o \in {None, Some([generated |-> FALSE, foreign_key |-> None]),
                   Some([generated |-> TRUE, foreign_key |-> None])}
                  \cup {Some([generated |-> FALSE, foreign_key |-> Some(n)]) :
                            n \in LinkNames}}

ColumnFieldAt(k, kind) ==
    RawField(IF is_some(kind.ident) THEN unwrap(kind.ident) ELSE FieldIdent(k),
             kind.ty, PathExpr("Identifier"), Some(72), kind.column_name,
             kind.primary_key, kind.identifier_options, kind.localizable)

ColumnStructOf(name, kinds) ==
    StructItem(Some(name), [k \in 1..Len(kinds) |-> ColumnFieldAt(k, kinds[k])])

\* A struct does not declare two fields of one name.
DistinctIdents(item) ==
    \A j, k \in 1..Len(item.fields) :
        j # k => item.fields[j].ident # item.fields[k].ident

\* msi_table!(struct ...) on a struct of ColumnKinds fields.
msi_table_columns ==
    /\ called = "none"
    /\ \E n \in 0..MaxColumnFields : \E name \in TableNames :
       \E kinds \in [1..n -> ColumnKinds] :
            /\ DistinctIdents(ColumnStructOf(name, kinds))
            /\ gen_tables_impl(ColumnStructOf(name, kinds))

\* table.rs's generate_table_tokens on a struct of ColumnKinds fields.
call_table_generate_table_tokens_columns ==
    /\ called = "none"
    /\ \E n \in 0..MaxColumnFields : \E name \in TableNames :
       \E kinds \in [1..n -> ColumnKinds] :
            /\ DistinctIdents(ColumnStructOf(name, kinds))
            /\ table_generate_table_tokens_on(ColumnStructOf(name, kinds))

NextColumns == msi_table_columns \/ call_table_generate_table_tokens_columns

SpecColumns == Init /\ [][NextColumns]_vars

\* ------------------------------------------------------------------------
\* The identifier options of the fields
\* ------------------------------------------------------------------------
\* Fields of a valid category and length that differ in primary_key and in
\* the identifier option: absent, or present with any generated and
\* foreign_key.
IdentifierKinds ==
    [category : {PathExpr("Identifier")}, length : {Some(72)},
     primary_key : BOOLEAN,
     identifier_options : {None} \cup {Some(i) : i \in IdentifierInformation}]

msi_table_identifier == msi_table_of(IdentifierKinds, MaxIdentifierFields)

\* The fields marked primary_key, in declaration order.
primary_key_fields(fields) == SelectSeq(fields, LAMBDA f : f.primary_key)

\* identifier.rs's pub fn generate_identifier_tokens, called with the
\* capitalized name and, as primary identifier, the first primary_key field
\* of a struct: a caller that does not apply gen_tables_impl's filter.
call_generate_identifier_tokens ==
    /\ called = "none"
    /\ \E n \in 1..MaxIdentifierFields : \E name \in EntityNames :
       \E kinds \in [1..n -> IdentifierKinds] :
            LET item == StructOf(name, kinds)
                keys == primary_key_fields(NewTableDef(item).fields)
            IN  /\ Len(keys) >= 1
                /\ input' = item
                /\ ret' = identifier_generate_identifier_tokens(
                            capitalize(unwrap(item.name)), keys[1])
    /\ called' = "identifier::generate_identifier_tokens"
    /\ earlier' = Earlier
    /\ UNCHANGED <<rows, heap, gens, last_from, out, origin>>

NextIdentifier == msi_table_identifier \/ call_generate_identifier_tokens

SpecIdentifier == Init /\ [][NextIdentifier]_vars

\* ------------------------------------------------------------------------
\* Name conversion
\* ------------------------------------------------------------------------
NameChars == {"a", "b", "_", "X"}

\* The strings of at most MaxNameLen characters, the empty one included.
Names == SeqsOf(NameChars, 0, MaxNameLen)

NameInput(s) == [kind |-> "name", name |-> Some(s), fields |-> <<>>,
                 variants |-> <<>>]

\* helper.rs's pub fn snake_case_to_pascal_case on the string s.
call_snake_case_to_pascal_case ==
    /\ called = "none"
    /\ \E s \in Names :
        /\ input' = NameInput(s)
        /\ ret' = Ok(snake_case_to_pascal_case(s))
    /\ called' = "helper::snake_case_to_pascal_case"
    /\ earlier' = Earlier
    /\ UNCHANGED <<rows, heap, gens, last_from, out, origin>>

NextNames == call_snake_case_to_pascal_case

SpecNames == Init /\ [][NextNames]_vars

\* ------------------------------------------------------------------------
\* The emitted DAO at run time
\* ------------------------------------------------------------------------
\* Structs that compile unless two fields qualify as primary identifier:
\* every category and length is valid, the fields differ in primary_key and
\* in being an identifier of the table or a foreign key.
DaoKinds ==
    [category : {PathExpr("Identifier")}, length : {Some(72)},
     primary_key : BOOLEAN,
     identifier_options :
        {None, Some([generated |-> FALSE, foreign_key |-> None]),
         Some([generated |-> FALSE, foreign_key |-> Some(<<"F", "e", "a">>)])}]

RowValues == {"x", "y"}

\* A call of the emitted conflicts_with on two rows of the compiled DAO.
call_conflicts_with ==
    /\ called = "gen_tables_impl"
    /\ ret.status = "ok"
    /\ rows = NoRows
    /\ out = NoOut
    /\ \E self \in [1..Len(input.fields) -> RowValues] :
       \E other \in [1..Len(input.fields) -> RowValues] :
            rows' = [self |-> self, other |-> other,
                     result |-> conflicts_with(ret.tokens.dao, self, other)]
    /\ UNCHANGED <<input, called, ret, heap, gens, last_from, earlier, out, origin>>

msi_table_dao == msi_table_of(DaoKinds, MaxDaoFields)

\* dao.rs's pub fn generate_dao_tokens, called as gen_tables_impl calls its
\* own: with the capitalized name, the one field its filter found (or none)
\* and the fields of the struct.
call_dao_generate_dao_tokens ==
    /\ called = "none"
    /\ \E n \in 0..MaxDaoFields : \E name \in EntityNames :
       \E kinds \in [1..n -> DaoKinds] :
            LET item == StructOf(name, kinds)
                fields == NewTableDef(item).fields
                candidates == primary_identifier_candidates(fields)
            IN  /\ Len(candidates) <= 1
                /\ input' = item
                /\ ret' = Ok(dao_generate_dao_tokens(
                            capitalize(unwrap(item.name)),
                            IF Len(candidates) = 1 THEN Some(candidates[1])
                            ELSE None,
                            fields))
    /\ called' = "dao::generate_dao_tokens"
    /\ earlier' = Earlier
    /\ UNCHANGED <<rows, heap, gens, last_from, out, origin>>

\* The DAO tokens of the finished call.
CompiledDao ==
    IF called = "gen_tables_impl" THEN ret.tokens.dao ELSE ret.tokens

\* A call of the emitted primary_identifier on a row of the compiled DAO.
call_primary_identifier ==
    /\ called \in {"gen_tables_impl", "dao::generate_dao_tokens"}
    /\ ret.status = "ok"
    /\ rows = NoRows
    /\ out = NoOut
    /\ \E self \in [1..Len(input.fields) -> RowValues] :
        LET result == primary_identifier(CompiledDao, self)
        IN  out' = [method |-> "primary_identifier", self |-> self,
                    build |-> result.build, value |-> result.value]
    /\ UNCHANGED <<input, called, ret, rows, heap, gens, last_from, earlier, origin>>

\* A call of the emitted to_row on a row of the compiled DAO.
call_to_row ==
    /\ called \in {"gen_tables_impl", "dao::generate_dao_tokens"}
    /\ ret.status = "ok"
    /\ rows = NoRows
    /\ out = NoOut
    /\ \E self \in [1..Len(input.fields) -> RowValues] :
        LET result == to_row(CompiledDao, self)
        IN  out' = [method |-> "to_row", self |-> self,
                    build |-> result.build, value |-> result.value]
    /\ UNCHANGED <<input, called, ret, rows, heap, gens, last_from, earlier, origin>>

NextDao ==
    \/ msi_table_dao
    \/ call_dao_generate_dao_tokens
    \/ call_conflicts_with
    \/ call_primary_identifier
    \/ call_to_row

SpecDao == Init /\ [][NextDao]_vars

\* ------------------------------------------------------------------------
\* The emitted generator at run time
\* ------------------------------------------------------------------------
\* A struct with a generated primary identifier, as the Directory table of
\* the tests.
GeneratedKinds ==
    [category : {PathExpr("Identifier")}, length : {Some(72)},
     primary_key : {TRUE},
     identifier_options : {Some([generated |-> TRUE, foreign_key |-> None])}]

Identifiers == {<<"D", "I", "R">>}

GeneratorEmitted ==
    /\ called = "gen_tables_impl"
    /\ ret.status = "ok"
    /\ is_some(ret.tokens.identifier.generator)

\* Rc::new(RefCell::new(Vec::new())): a new shared list of used identifiers.
Rc_new ==
    /\ Len(heap) < MaxLists
    /\ heap' = Append(heap, <<>>)
    /\ UNCHANGED <<input, called, ret, rows, gens, last_from, earlier, out, origin>>

\* A holder of the handle value appends an identifier to the shared list.
used_push ==
    /\ \E value \in 1..Len(heap) : \E id \in Identifiers :
        /\ Len(heap[value]) < MaxUsed
        /\ heap' = [heap EXCEPT ![value] = Append(@, id)]
    /\ UNCHANGED <<input, called, ret, rows, gens, last_from, earlier, out, origin>>

\* A generator appends an identifier to the list its used() gives.
call_used_push ==
    /\ \E g \in 1..Len(gens) : \E id \in Identifiers :
        /\ Len(used(gens[g], heap)) < MaxUsed
        /\ heap' = [heap EXCEPT ![gens[g].used] = Append(@, id)]
    /\ UNCHANGED <<input, called, ret, rows, gens, last_from, earlier, out, origin>>

\* <Name>IdentifierGenerator::from(value) in the code that uses the macro;
\* origin keeps, for every generator, the handle it was built from.
call_generator_from ==
    /\ GeneratorEmitted
    /\ Len(gens) < MaxGens
    /\ \E value \in 1..Len(heap) :
        LET g == generator_from(unwrap(ret.tokens.identifier.generator),
                                heap, value)
        IN  /\ gens' = Append(gens, g)
            /\ last_from' = [handle |-> value, len |-> Len(heap[value]),
                             count |-> g.count]
            /\ origin' = Append(origin, value)
    /\ UNCHANGED <<input, called, ret, rows, heap, earlier, out>>

\* The derived Clone of the generator: the count is copied, the handle is
\* shared; the clone descends from the handle its original was built from.
call_generator_clone ==
    /\ Len(gens) < MaxGens
    /\ \E g \in 1..Len(gens) :
        /\ gens' = Append(gens, gens[g])
        /\ origin' = Append(origin, origin[g])
    /\ UNCHANGED <<input, called, ret, rows, heap, last_from, earlier, out>>

msi_table_generated == msi_table_of(GeneratedKinds, 1)

NextGen ==
    \/ msi_table_generated
    \/ Rc_new
    \/ used_push
    \/ call_used_push
    \/ call_generator_from
    \/ call_generator_clone

SpecGen == Init /\ [][NextGen]_vars

\* ------------------------------------------------------------------------
\* Properties
\* ------------------------------------------------------------------------
\* The input is an entity: a struct that gives the table name and, for
\* every field, the category and the length FieldInformation requires.
IsEntity ==
    /\ input.kind = "struct"
    /\ input.name # None
    /\ \A k \in 1..Len(input.fields) : input.fields[k].length # None

\* The positions of the fields that qualify as primary identifier.
PrimaryIdentifierPositions ==
    {k \in 1..Len(input.fields) :
        /\ input.fields[k].primary_key
        /\ input.fields[k].identifier_options # None
        /\ input.fields[k].identifier_options[1].foreign_key = None}

\* The positions of the fields marked primary_key.
PrimaryKeyPositions == {k \in 1..Len(input.fields) : input.fields[k].primary_key}

\* The table tokens of the finished call.
TableTokens ==
    IF called = "gen_tables_impl" THEN ret.tokens.table ELSE ret.tokens

\* C1: for an entity with two or more fields that are primary_key, have
\* identifier options and no foreign_key, gen_tables_impl panics with the
\* more-than-one-primary-identifier message and returns no tokens; with
\* zero or one such field it does not end with that panic.
C1_AmbiguousPrimaryIdentifier ==
    (called = "gen_tables_impl" /\ IsEntity) =>
        /\ Cardinality(PrimaryIdentifierPositions) >= 2 =>
                /\ ret.status = "panic"
                /\ ret.error = ERR_AMBIGUOUS
                /\ ret.tokens = NoTokens
        /\ Cardinality(PrimaryIdentifierPositions) <= 1 =>
                ret.error # ERR_AMBIGUOUS

C1_Witness ==
    /\ called = "gen_tables_impl"
    /\ IsEntity
    /\ Cardinality(PrimaryIdentifierPositions) = 2
    /\ ret.error = ERR_AMBIGUOUS

\* C2: for an entity with at least one primary_key field, conflicts_with
\* on two rows is true exactly when the rows agree on every primary_key
\* field; the other fields have no influence.
C2_ConflictsIsPrimaryKeyEquality ==
    (rows.result # "none" /\ PrimaryKeyPositions # {}) =>
        rows.result =
            IF \A k \in PrimaryKeyPositions : rows.self[k] = rows.other[k]
            THEN "true" ELSE "false"

C2_Witness ==
    /\ rows.result = "true"
    /\ Cardinality(PrimaryKeyPositions) = 2
    /\ \E k \in 1..Len(input.fields) :
        k \notin PrimaryKeyPositions /\ rows.self[k] # rows.other[k]

\* C3: for an entity without primary_key fields compilation succeeds and
\* conflicts_with is true for every pair of rows.
C3_NoPrimaryKeyAlwaysConflicts ==
    (called = "gen_tables_impl" /\ PrimaryKeyPositions = {}) =>
        /\ ret.status = "ok"
        /\ rows.result \in {"none", "true"}

\* C4: a generator built from a shared used-identifiers handle starts with
\* count equal to the length of the shared list at that moment.
C4_FromCountsUsed ==
    last_from # NoFrom => last_from.count = last_from.len

\* C5: primary_key_indices() lists the 0-based positions of the fields
\* marked primary_key, in declaration order, none repeated or omitted.
C5_PrimaryKeyIndices ==
    (ret.status = "ok" /\ input.kind = "struct") =>
        LET indices == TableTokens.msi_table.primary_key_indices
        IN  /\ \A j \in 1..Len(indices) : indices[j] + 1 \in PrimaryKeyPositions
            /\ \A k \in PrimaryKeyPositions :
                    \E j \in 1..Len(indices) : indices[j] = k - 1
            /\ \A i, j \in 1..Len(indices) : i < j => indices[i] < indices[j]

C5_Witness ==
    /\ ret.status = "ok"
    /\ Len(input.fields) = 2
    /\ PrimaryKeyPositions = {2}
    /\ TableTokens.msi_table.primary_key_indices = <<1>>

\* The tagged union of an enum: one case per variant, in variant order,
\* named after the variant and wrapping the variant's table type.
UnionOf(variants) ==
    [k \in 1..Len(variants) |->
        [case |-> variants[k].name,
         wraps |-> table_from_name(capitalize(variants[k].name))]]

\* C6: compiling an enum of N variants succeeds and emits a tagged union
\* of N cases, case i named after variant i and wrapping its table type.
C6_EnumCompilesToUnion ==
    (called = "gen_tables_impl" /\ input.kind = "enum") =>
        /\ ret.status = "ok"
        /\ ret.tokens.union = Some(UnionOf(input.variants))

\* The category of field f is one of the two integer categories.
IsIntegerCategory(f) ==
    f.category.is_path /\ f.category.last \in {"Integer", "DoubleInteger"}

\* The category of field f is not a path or names no category.
IsInvalidCategory(f) ==
    ~f.category.is_path \/ f.category.last \notin RecognizedCategories

\* Field f has a recognized category other than the integer ones and
\* declares no length.
IsMissingLength(f) ==
    ~IsInvalidCategory(f) /\ ~IsIntegerCategory(f) /\ f.length = None

\* The storage finish the category of field f asks for.
ExpectedFinish(f) ==
    IF f.category.last = "Integer" THEN [kind |-> "int16", length |-> <<>>]
    ELSE IF f.category.last = "DoubleInteger"
    THEN [kind |-> "int32", length |-> <<>>]
    ELSE [kind |-> "string", length |-> f.length]

\* A compilation of an entity has finished: gen_tables_impl on a struct
\* that parsed, or table.rs's generate_table_tokens on a struct's fields.
Compiled ==
    \/ called = "gen_tables_impl" /\ IsEntity
    \/ called = "table::generate_table_tokens"

\* C7: the storage finish of a column follows from the category alone:
\* Integer gives int16, DoubleInteger gives int32 and every other
\* recognized category gives a string of the declared length; a field of
\* such an other category without a length aborts compilation.
C7_FinishByCategory ==
    (called # "none" /\ input.kind = "struct") =>
        /\ ret.status = "ok" =>
                /\ Len(TableTokens.msi_table.columns) = Len(input.fields)
                /\ \A k \in 1..Len(input.fields) :
                        TableTokens.msi_table.columns[k].finish
                            = ExpectedFinish(input.fields[k])
        /\ (\E k \in 1..Len(input.fields) : IsMissingLength(input.fields[k])) =>
                ret.status = "panic" /\ ret.tokens = NoTokens

C7_Witness ==
    /\ called = "gen_tables_impl"
    /\ ret.status = "ok"
    /\ Len(input.fields) = 2
    /\ input.fields[1].category.last = "Integer"
    /\ input.fields[1].length = Some(72)
    /\ TableTokens.msi_table.columns[1].finish.kind = "int16"
    /\ input.fields[2].category.last = "Identifier"
    /\ TableTokens.msi_table.columns[2].finish.kind = "string"

\* C8: a struct whose only irregularity is an Integer or DoubleInteger
\* field without a length compiles, and that field gets its integer column.
C8_IntegerNeedsNoLength ==
    ( /\ called = "gen_tables_impl"
      /\ input.kind = "struct"
      /\ \E k \in 1..Len(input.fields) :
            IsIntegerCategory(input.fields[k]) /\ input.fields[k].length = None
      /\ Cardinality(PrimaryIdentifierPositions) <= 1
      /\ \A k \in 1..Len(input.fields) :
            /\ ~IsInvalidCategory(input.fields[k])
            /\ ~IsMissingLength(input.fields[k]) ) =>
        /\ ret.status = "ok"
        /\ \A k \in 1..Len(input.fields) :
                TableTokens.msi_table.columns[k].finish
                    = ExpectedFinish(input.fields[k])

\* The panic message of an invalid category.
CategoryError(f) == IF ~f.category.is_path THEN ERR_NOT_PATH ELSE ERR_CATEGORY

\* The first field with an invalid category.
FirstInvalidCategory ==
    input.fields[CHOOSE k \in 1..Len(input.fields) :
        /\ IsInvalidCategory(input.fields[k])
        /\ \A j \in 1..(k - 1) : ~IsInvalidCategory(input.fields[j])]

\* A field before the first one with an invalid category misses its length.
MissingLengthComesFirst ==
    \E k \in 1..Len(input.fields) :
        /\ IsMissingLength(input.fields[k])
        /\ \A j \in 1..k : ~IsInvalidCategory(input.fields[j])

\* C9 as stated: an entity with a field whose category is not a path or
\* names no category aborts with an invalid-category error, with no tokens.
C9_InvalidCategoryError ==
    (Compiled /\ \E k \in 1..Len(input.fields) :
                    IsInvalidCategory(input.fields[k])) =>
        /\ ret.status = "panic"
        /\ ret.error \in {ERR_NOT_PATH, ERR_CATEGORY}
        /\ ret.tokens = NoTokens

\* C9 amended: such an entity aborts with no tokens; the error is the
\* invalid-category error of the first such field unless an earlier check
\* fails first: in gen_tables_impl the check for more than one primary
\* identifier, in table.rs's fold the missing length of an earlier field.
C9_InvalidCategoryAborts ==
    (Compiled /\ \E k \in 1..Len(input.fields) :
                    IsInvalidCategory(input.fields[k])) =>
        /\ ret.status = "panic"
        /\ ret.tokens = NoTokens
        /\ ret.error =
            IF called = "gen_tables_impl"
               /\ Cardinality(PrimaryIdentifierPositions) >= 2
            THEN ERR_AMBIGUOUS
            ELSE IF called = "table::generate_table_tokens"
                    /\ MissingLengthComesFirst
            THEN ERR_LENGTH
            ELSE CategoryError(FirstInvalidCategory)

C9_Witness ==
    /\ called = "gen_tables_impl"
    /\ IsEntity
    /\ Len(input.fields) = 2
    /\ ~IsInvalidCategory(input.fields[1])
    /\ IsInvalidCategory(input.fields[2])
    /\ ret.error = ERR_CATEGORY
    /\ ret.tokens = NoTokens

\* C10: the table struct has a generator member exactly when the entity
\* declares a generated primary identifier: a field that is primary_key,
\* has identifier options with generated set and names no foreign_key.
C10_GeneratorMemberIffGeneratedPrimary ==
    (called = "gen_tables_impl" /\ ret.status = "ok") =>
        (TableTokens.definition.generator # None
            <=> \E k \in PrimaryIdentifierPositions :
                    input.fields[k].identifier_options[1].generated)

\* C11: an entity that compiles gets the <Name>Identifier wrapper exactly
\* when it has a primary identifier field, and <Name>IdentifierGenerator
\* exactly when that field's generated flag is set; an entity whose
\* primary_key fields all name a foreign key gets neither.
C11_IdentifierArtifacts ==
    (called = "gen_tables_impl" /\ ret.status = "ok") =>
        /\ ret.tokens.identifier.identifier # None
                <=> PrimaryIdentifierPositions # {}
        /\ ret.tokens.identifier.generator # None
                <=> \E k \in PrimaryIdentifierPositions :
                        input.fields[k].identifier_options[1].generated
        /\ (\A k \in PrimaryKeyPositions :
                /\ input.fields[k].identifier_options # None
                /\ input.fields[k].identifier_options[1].foreign_key # None) =>
                    ret.tokens.identifier = NoIdentifierTokens

C11_Witness ==
    /\ called = "gen_tables_impl"
    /\ ret.status = "ok"
    /\ PrimaryKeyPositions = {1, 2}
    /\ PrimaryIdentifierPositions = {2}
    /\ ~input.fields[2].identifier_options[1].generated
    /\ ret.tokens.identifier.identifier # None
    /\ ret.tokens.identifier.generator = None

\* The primary identifier field of the input (there is at most one when the
\* compilation succeeded).
PrimaryIdentifierPosition == CHOOSE k \in PrimaryIdentifierPositions : TRUE

\* C12: primary_identifier() on a row of a compiled Dao returns Some(the
\* value of the primary identifier field converted with to_identifier) when
\* the entity has a primary identifier field, and None when it has none.
C12_PrimaryIdentifier ==
    out.method = "primary_identifier" =>
        /\ out.build = "ok"
        /\ out.value =
                IF PrimaryIdentifierPositions # {}
                THEN Some(Applied("to_identifier",
                                  out.self[PrimaryIdentifierPosition]))
                ELSE None

\* C15: to_row() on a row of a compiled Dao yields one value per field, in
\* declaration order, element i being the ToValue conversion of field i.
C15_ToRow ==
    out.method = "to_row" =>
        /\ out.build = "ok"
        /\ out.value = [k \in 1..Len(input.fields) |->
                            Applied("msi::ToValue::to_value", out.self[k])]

\* The types that wrap their value in an Option, as declared.
OptionalWrapped == {"Option<T>", "std::option::Option<T>"}

\* C13: the column of a field is marked nullable exactly when the declared
\* type of the field is optional-wrapped.
C13_NullableIffOptional ==
    (called # "none" /\ ret.status = "ok") =>
        \A k \in 1..Len(input.fields) :
            TableTokens.msi_table.columns[k].nullable
                <=> input.fields[k].ty.written \in OptionalWrapped

C13_Witness ==
    /\ called = "table::generate_table_tokens"
    /\ ret.status = "ok"
    /\ Len(input.fields) = 2
    /\ input.fields[1].ty.written = "std::option::Option<T>"
    /\ TableTokens.msi_table.columns[1].nullable
    /\ input.fields[2].ty.written = "Vec<Option<T>>"
    /\ ~TableTokens.msi_table.columns[2].nullable

\* The table that field f names as foreign key, if it names one.
ForeignKeyOf(f) ==
    IF f.identifier_options # None
    THEN f.identifier_options[1].foreign_key
    ELSE None

\* C14: a field that names a foreign_key table yields a column linked to
\* (that name, column 0), wherever the primary key of the named table is
\* and whether or not a table of that name is declared; a field without
\* foreign_key yields no link; the name never aborts the compilation.
C14_ForeignKeyLinksColumnZero ==
    ( /\ called # "none"
      /\ called = "gen_tables_impl" =>
            Cardinality(PrimaryIdentifierPositions) <= 1 ) =>
        /\ ret.status = "ok"
        /\ \A k \in 1..Len(input.fields) :
                TableTokens.msi_table.columns[k].foreign_key =
                    IF ForeignKeyOf(input.fields[k]) # None
                    THEN Some(<<ForeignKeyOf(input.fields[k])[1], 0>>)
                    ELSE None

C14_Witness ==
    /\ called = "gen_tables_impl"
    /\ ret.status = "ok"
    /\ input.name = Some(<<"D", "i", "r">>)
    /\ Len(input.fields) = 2
    /\ ForeignKeyOf(input.fields[1]) = Some(<<"D", "i", "r">>)
    /\ ForeignKeyOf(input.fields[2]) = Some(<<"N", "o">>)
    /\ TableTokens.msi_table.primary_key_indices = <<1>>
    /\ TableTokens.msi_table.columns[1].foreign_key = Some(<<<<"D", "i", "r">>, 0>>)
    /\ TableTokens.msi_table.columns[2].foreign_key = Some(<<<<"N", "o">>, 0>>)

\* The field names in title case with every underscore removed.
TitleCased(ident) ==
    CASE ident = <<"d", "i", "r">> -> <<"D", "i", "r">>
      [] ident = <<"f", "_">> -> <<"F">>
      [] ident = <<"d", "_", "d">> -> <<"D", "D">>
      [] ident = <<"_", "x">> -> <<"X">>
      [] ident = <<"a", "_", "b", "_", "c">> -> <<"A", "B", "C">>

\* The field names split at the underscores that are neither the first nor
\* the last character, each piece with its first character in upper case.
InnerSeparatorsRemoved(ident) ==
    CASE ident = <<"d", "i", "r">> -> <<"D", "i", "r">>
      [] ident = <<"f", "_">> -> <<"F", "_">>
      [] ident = <<"d", "_", "d">> -> <<"D", "D">>
      [] ident = <<"_", "x">> -> <<"_", "x">>
      [] ident = <<"a", "_", "b", "_", "c">> -> <<"A", "B", "C">>

UpperFirst(name) ==
    CASE name = <<"d", "i", "r">> -> <<"D", "i", "r">>
      [] name = <<"D", "i", "r">> -> <<"D", "i", "r">>
      [] name = <<"d", "I", "_", "r">> -> <<"D", "I", "_", "r">>

\* C20: the artifacts of an entity are named <Name>Identifier,
\* <Name>IdentifierGenerator, <Name>Dao and <Name>Table, <Name> being the
\* table name with its first character in upper case and the rest
\* unchanged; the generator name is the identifier name plus Generator.
C20_ArtifactNames ==
    (called = "gen_tables_impl" /\ ret.status = "ok") =>
        LET Name == UpperFirst(input.name[1])
            identifier == ret.tokens.identifier.identifier
            generator == ret.tokens.identifier.generator
            IdentifierName ==
                Name \o <<"I", "d", "e", "n", "t", "i", "f", "i", "e", "r">>
            TableName == Name \o <<"T", "a", "b", "l", "e">>
        IN  /\ identifier # None => identifier[1].struct = IdentifierName
            /\ generator # None =>
                    /\ generator[1].struct = IdentifierName
                            \o <<"G", "e", "n", "e", "r", "a", "t", "o", "r">>
                    /\ generator[1].identifier_type = IdentifierName
            /\ ret.tokens.dao.struct.ident = Name \o <<"D", "a", "o">>
            /\ ret.tokens.dao.msi_dao.for = Name \o <<"D", "a", "o">>
            /\ ret.tokens.table.definition.ident = TableName
            /\ ret.tokens.table.msi_table.for = TableName

\* What the single-entity path emits for variant v compiled alone, as the
\* struct of its name and fields.
VariantAlone(v) == gen_tables_impl_of(StructItem(Some(v.name), v.fields))

\* C17: compiling a variant group emits, for each variant, exactly the
\* identifier, generator, Dao and Table artifacts the single-entity path
\* emits for that variant alone.
C17_VariantsCompileAlone ==
    ( /\ called = "gen_tables_impl"
      /\ input.kind = "enum"
      /\ \A k \in 1..Len(input.variants) :
            VariantAlone(input.variants[k]).status = "ok" ) =>
        /\ ret.status = "ok"
        /\ Len(ret.tokens.variants) = Len(input.variants)
        /\ \A k \in 1..Len(input.variants) :
            LET alone == VariantAlone(input.variants[k]).tokens
            IN  /\ ret.tokens.variants[k].identifier = alone.identifier
                /\ ret.tokens.variants[k].dao = alone.dao
                /\ ret.tokens.variants[k].table = alone.table

\* The entities of the compiled group: the input struct, or the variants of
\* the input enum.
GroupEntities ==
    IF input.kind = "enum"
    THEN [k \in 1..Len(input.variants) |-> input.variants[k].fields]
    ELSE IF input.kind = "struct" THEN <<input.fields>>
    ELSE <<>>

\* The fields of an entity fail validation: two of them qualify as primary
\* identifier, one has an invalid category, or one of a string category
\* declares no length.
FailsValidation(fields) ==
    \/ \E j, k \in 1..Len(fields) :
            /\ j # k
            /\ \A i \in {j, k} :
                    /\ fields[i].primary_key
                    /\ fields[i].identifier_options # None
                    /\ fields[i].identifier_options[1].foreign_key = None
    \/ \E k \in 1..Len(fields) :
            IsInvalidCategory(fields[k]) \/ IsMissingLength(fields[k])

\* C18: when an entity of the compiled group fails validation the
\* compilation aborts and emits nothing: no artifact of any entity of the
\* group and no tagged union.
C18_InvalidEntityAbortsGroup ==
    ( /\ called = "gen_tables_impl"
      /\ \E e \in 1..Len(GroupEntities) : FailsValidation(GroupEntities[e]) ) =>
        /\ ret.status = "panic"
        /\ ret.tokens = NoTokens

C18_Witness ==
    /\ called = "gen_tables_impl"
    /\ input.kind = "enum"
    /\ input.name # None
    /\ Len(input.variants) = 2
    /\ ~FailsValidation(GroupEntities[1])
    /\ FailsValidation(GroupEntities[2])
    /\ ret.status = "panic"
    /\ ret.tokens = NoTokens

C21_KeyAndLocalizableFlags ==
    (called # "none" /\ ret.status = "ok") =>
        \A k \in 1..Len(input.fields) :
            /\ TableTokens.msi_table.columns[k].primary_key
                    <=> input.fields[k].primary_key
            /\ TableTokens.msi_table.columns[k].localizable
                    <=> input.fields[k].localizable

C21_Witness ==
    /\ called = "table::generate_table_tokens"
    /\ ret.status = "ok"
    /\ Len(input.fields) = 2
    /\ input.fields[1].primary_key /\ input.fields[1].localizable
    /\ ForeignKeyOf(input.fields[1]) # None
    /\ ~input.fields[2].primary_key /\ input.fields[2].localizable
    /\ TableTokens.msi_table.columns[1].primary_key
    /\ TableTokens.msi_table.columns[1].localizable
    /\ ~TableTokens.msi_table.columns[2].primary_key
    /\ TableTokens.msi_table.columns[2].localizable

\* The table names in upper case.
UpperCased(name) ==
    CASE name = <<"d", "i", "r">> -> <<"D", "I", "R">>
      [] name = <<"D", "i", "r">> -> <<"D", "I", "R">>
      [] name = <<"d", "I", "_", "r">> -> <<"D", "I", "_", "R">>

\* C22: the id_prefix() of an emitted generator returns the name of the
\* entity in upper case, whatever the name.
C22_IdPrefixUpperCase ==
    ( /\ called = "gen_tables_impl"
      /\ ret.status = "ok"
      /\ ret.tokens.identifier.generator # None ) =>
        ret.tokens.identifier.generator[1].id_prefix = UpperCased(input.name[1])

C22_Witness ==
    /\ called = "gen_tables_impl"
    /\ ret.status = "ok"
    /\ input.name = Some(<<"d", "I", "_", "r">>)
    /\ ret.tokens.identifier.generator # None
    /\ ret.tokens.identifier.generator[1].id_prefix = <<"D", "I", "_", "R">>

\* C23: the generators built from one shared handle, and their clones, all
\* hold the list behind that handle: whatever was appended and through
\* whichever holder, used() gives every one of them the same contents.
C23_SharedUsedList ==
    \A a, b \in 1..Len(gens) :
        origin[a] = origin[b] =>
            /\ used(gens[a], heap) = used(gens[b], heap)
            /\ used(gens[a], heap) = heap[origin[a]]

C23_Witness ==
    /\ Len(gens) = 2
    /\ origin[1] = origin[2]
    /\ Len(heap) = 2
    /\ Len(used(gens[1], heap)) = 2
    /\ used(gens[2], heap) = used(gens[1], heap)
    /\ \E h \in 1..Len(heap) : Len(heap[h]) = 1

\* The names of the entities of the compiled group.
GroupNames ==
    IF input.kind = "enum"
    THEN {capitalize(input.variants[k].name) : k \in 1..Len(input.variants)}
    ELSE IF input.kind = "struct" /\ input.name # None
    THEN {capitalize(input.name[1])}
    ELSE {}

\* A field of the entity names a foreign_key table that is no entity of
\* the group.
LinksOutsideGroup(fields) ==
    \E k \in 1..Len(fields) :
        /\ ForeignKeyOf(fields[k]) # None
        /\ ForeignKeyOf(fields[k])[1] \notin GroupNames

PassedPrimaryIdentifier ==
    input.fields[CHOOSE k \in PrimaryKeyPositions :
                    \A j \in PrimaryKeyPositions : k <= j]

\* A field of the entity asks for a generated identifier.
GeneratorRequested ==
    \E k \in 1..Len(input.fields) :
        /\ input.fields[k].identifier_options # None
        /\ input.fields[k].identifier_options[1].generated

GeneratorTypeName ==
    capitalize(input.name[1])
        \o <<"I", "d", "e", "n", "t", "i", "f", "i", "e", "r">>
        \o <<"G", "e", "n", "e", "r", "a", "t", "o", "r">>

\* C26: when the emitted table struct has a generator member, the generator
\* type it names is emitted in the same output.
C26_GeneratorMemberHasItsType ==
    ( /\ called = "gen_tables_impl"
      /\ ret.status = "ok"
      /\ ret.tokens.table.definition.generator # None ) =>
        /\ ret.tokens.table.definition.generator = Some(GeneratorTypeName)
        /\ ret.tokens.identifier.generator # None
        /\ ret.tokens.identifier.generator[1].struct = GeneratorTypeName

\* The upper case of the characters names are made of.
UpperChar(c) == CASE c = "a" -> "A" [] c = "b" -> "B" [] OTHER -> c

\* The underscore at position k of s is neither the first nor the last
\* character of s.
InnerUnderscore(s, k) == s[k] = "_" /\ 1 < k /\ k < Len(s)

\* s read character by character: an inner underscore is dropped, the
\* first character and the character after an inner underscore are put in
\* upper case, every other character stays.
RECURSIVE PascalCasedFrom(_, _)
PascalCasedFrom(s, k) ==
    IF k > Len(s) THEN <<>>
    ELSE IF InnerUnderscore(s, k) THEN PascalCasedFrom(s, k + 1)
    ELSE IF k = 1 \/ InnerUnderscore(s, k - 1)
    THEN <<UpperChar(s[k])>> \o PascalCasedFrom(s, k + 1)
    ELSE <<s[k]>> \o PascalCasedFrom(s, k + 1)

C28_RowLinesUpWithColumns ==
    (called \in {"gen_tables_impl", "dao::generate_dao_tokens"}
        /\ ret.status = "ok") =>
        LET elements == CompiledDao.msi_dao.to_row
        IN  /\ Len(elements) = Len(input.fields)
            /\ \A k \in 1..Len(elements) :
                    elements[k].field = input.fields[k].ident
            /\ called = "gen_tables_impl" =>
                    LET columns == ret.tokens.table.msi_table.columns
                    IN  /\ Len(columns) = Len(elements)
                        /\ \A k \in 1..Len(columns) :
                            /\ columns[k].name
                                    = InnerSeparatorsRemoved(elements[k].field)
                            /\ columns[k].primary_key
                                    = input.fields[k].primary_key
            /\ (out.method = "to_row" /\ out.build = "ok") =>
                    /\ Len(out.value) = Len(input.fields)
                    /\ \A k \in 1..Len(out.value) :
                            out.value[k].of = out.self[k]

C28_Witness ==
    /\ called = "gen_tables_impl"
    /\ ret.status = "ok"
    /\ Len(input.fields) = 3
    /\ PrimaryKeyPositions = {2}
    /\ Len(ret.tokens.table.msi_table.columns) = 3
    /\ Len(ret.tokens.dao.msi_dao.to_row) = 3
    /\ ret.tokens.table.msi_table.columns[2].name = <<"F", "_">>
    /\ ret.tokens.dao.msi_dao.to_row[2].field = <<"f", "_">>

\* The positions of the fields the emitted conflicts_with compares.
ComparedPositions ==
    {k \in 1..Len(input.fields) :
        \E t \in 1..Len(ret.tokens.dao.msi_dao.conflicts_with) :
            /\ ret.tokens.dao.msi_dao.conflicts_with[t].tok = "=="
            /\ ret.tokens.dao.msi_dao.conflicts_with[t].field
                    = input.fields[k].ident}

\* C29: the three views of the primary key agree: position i is listed by
\* primary_key_indices() exactly when column i is marked primary_key and
\* exactly when field i is compared by conflicts_with; the primary
\* identifier field, when there is one, is one of these fields.
C29_PrimaryKeyViewsAgree ==
    (called = "gen_tables_impl" /\ ret.status = "ok") =>
        LET table_impl == ret.tokens.table.msi_table
            Listed == {table_impl.primary_key_indices[j] + 1 :
                            j \in 1..Len(table_impl.primary_key_indices)}
            Marked == {k \in 1..Len(table_impl.columns) :
                            table_impl.columns[k].primary_key}
        IN  /\ Listed = Marked
            /\ Marked = ComparedPositions
            /\ PrimaryIdentifierPositions \subseteq ComparedPositions
            /\ ret.tokens.dao.primary_identifier.field # None =>
                    \E k \in ComparedPositions :
                        input.fields[k].ident
                            = ret.tokens.dao.primary_identifier.field[1]

C29_Witness ==
    /\ called = "gen_tables_impl"
    /\ ret.status = "ok"
    /\ Len(input.fields) = 3
    /\ PrimaryKeyPositions = {1, 3}
    /\ PrimaryIdentifierPositions = {3}
    /\ ForeignKeyOf(input.fields[1]) # None
    /\ ret.tokens.table.msi_table.primary_key_indices = <<0, 2>>
    /\ ComparedPositions = {1, 3}
    /\ ret.tokens.dao.primary_identifier.field = Some(input.fields[3].ident)

\* C30: in a compiled table the columns of distinct fields have distinct
\* names.
C30_ColumnNamesDistinct ==
    (called # "none" /\ ret.status = "ok") =>
        \A j, k \in 1..Len(TableTokens.msi_table.columns) :
            j # k => TableTokens.msi_table.columns[j].name
                        # TableTokens.msi_table.columns[k].name

====
